---- MODULE Spec2Model ----
(***************************************************************************)
(* Model of deploy.py: the ECS blue/green deployment driver (class ECS and *)
(* main), together with the remote cluster it talks to through boto3.      *)
(*                                                                         *)
(* The orchestrator is one sequential process; `pc` is its position in     *)
(* ECS.run.  The remote side (autoscaling group, container instances,      *)
(* service scheduler, event log) moves on its own between two steps of the *)
(* orchestrator.  Every boto3 call either succeeds or raises; an exception *)
(* is never caught, so it ends the run (pc = "ABORTED").                   *)
(***************************************************************************)
EXTENDS Integers, Sequences, FiniteSets, TLC

\* ------------------------------------------------------------------ bounds
\* largest desired count / task count of the service when the run starts
MaxN == 2
\* number of task-definition revisions that may be registered remotely
MaxRev == 2
\* number of requests a direct caller of the client methods issues
MaxCalls == 2

\* ids of tasks are never reused; the scheduler starts no task beyond MaxTaskId
MaxTaskId == 2 * MaxN + 1

\* ------------------------------------------------------- program constants
\* self.stable_msg, as a sequence of words
stable_msg == <<"has", "reached", "a", "steady", "state">>
\* deploymentConfiguration of update_service
maximumPercent == 200
minimumHealthyPercent == 100

\* messages the service scheduler writes to the service's event log
SteadyEvent == <<"(service", "web)", "has", "reached", "a", "steady", "state", ".">>
StartedEvent == <<"(service", "web)", "has", "started", "1", "tasks", ".">>
StoppedEvent == <<"(service", "web)", "has", "stopped", "1", "running", "tasks", ".">>

\* values of --env
Envs == {"none", "prod", "test", "staging"}

VARIABLES
  env,                    \* the --env option given to main
  pc,                     \* position of the orchestrator in main / ECS.run
  failed_at,              \* position at which a remote call raised, or "-"
  \* ---- locals of ECS.run
  service,                \* service ARN resolved at step 1
  service_tasks,          \* list of task ids captured at step 2
  all_task_count,         \* len(service_tasks)
  task_definition,        \* ARN (revision) resolved at step 3
  desired_instance_count, \* int(all_task_count * 2), set at step 5
  drain_i,                \* index of the next element of the for loop of step 10
  \* ---- locals of the pollers
  poll,                   \* "read": about to query; "test": holds a fresh answer
  current_msg,            \* check_service_is_stable
  instance_count,         \* check_instance_is_stable
  running_count,          \* check_task_is_stable
  grace_slept,            \* check_instance_is_stable: seconds slept since its test
                          \* succeeded (line 64), -1 as long as it has not
  \* ---- remote state
  serviceArns,            \* services of the cluster, in listing order
  latest_revision,        \* latest revision of the task-definition family
  asg,                    \* autoscaling group: MinSize, MaxSize, DesiredCapacity
  instances,              \* number of registered container instances
  tasks,                  \* ids of the running tasks, each on an instance of its own
  stop_requested,         \* running tasks with a pending stop request
  next_task_id,           \* id of the next task the scheduler starts
  svc,                    \* service: desiredCount, taskDefinition, deployment config
  event,                  \* the service's most recent event message
  \* ---- history
  writes,                 \* the write requests accepted so far, in order
  reads,                  \* how often each baseline read was issued
  described               \* some describe_services / describe_clusters was issued

locals == <<service, service_tasks, all_task_count, task_definition,
            desired_instance_count, drain_i>>
pollers == <<poll, current_msg, instance_count, running_count, grace_slept>>
orch == <<pc, failed_at, locals, pollers>>
remote == <<serviceArns, latest_revision, asg, instances, tasks, stop_requested,
            next_task_id, svc, event>>
history == <<writes, reads, described>>
vars == <<env, orch, remote, history>>

\* -------------------------------------------------------------- helpers
\* Python's `sub in s` on messages, word by word
Contains(sub, s) ==
  \E i \in 0..(Len(s) - Len(sub)) : SubSeq(s, i + 1, i + Len(sub)) = sub

runningCount == Cardinality(tasks)
registeredContainerInstancesCount == instances

\* the listing of the running tasks, in id order
RECURSIVE SortedSeq(_)
SortedSeq(S) ==
  IF S = {} THEN <<>>
  ELSE LET m == CHOOSE x \in S : \A y \in S : x <= y
       IN <<m>> \o SortedSeq(S \ {m})

NoReads == [list_services |-> 0, list_tasks |-> 0, describe_task_definition |-> 0]

\* ------------------------------------------------------------------ Init
Init ==
  /\ env \in Envs
  /\ pc = "START"
  /\ failed_at = "-"
  /\ service = "-"
  /\ service_tasks = <<>>
  /\ all_task_count = 0
  /\ task_definition = 0
  /\ desired_instance_count = 0
  /\ drain_i = 1
  /\ poll = "read"
  /\ current_msg = <<>>
  /\ instance_count = 0
  /\ running_count = 0
  /\ grace_slept = -1
  /\ serviceArns \in {<<>>, <<"svcA">>, <<"svcA", "svcB">>}
  /\ latest_revision = 1
  /\ \E d \in 0..MaxN, r \in 0..MaxN :
       /\ r <= d
       /\ asg = [MinSize |-> d, MaxSize |-> d, DesiredCapacity |-> d]
       /\ instances = d
       /\ tasks = 1..r
       /\ next_task_id = r + 1
       /\ svc = [desiredCount |-> d, taskDefinition |-> 1,
                 maximumPercent |-> maximumPercent,
                 minimumHealthyPercent |-> minimumHealthyPercent]
       /\ event \in (IF r = d THEN {SteadyEvent, StartedEvent} ELSE {StartedEvent})
  /\ stop_requested = {}
  /\ writes = <<>>
  /\ reads = NoReads
  /\ described = FALSE

\* ------------------------------------------------------- orchestrator
\* (an exception that is caught and the call tried again)
Raise_retry ==
  /\ pc' = pc
  /\ failed_at' = pc
  /\ UNCHANGED <<locals, pollers>>

\* an exception raised by a remote call is caught nowhere: the run ends here
Raise ==
  /\ pc' = "ABORTED"
  /\ failed_at' = pc
  /\ UNCHANGED <<locals, pollers>>

Goto(next) ==
  /\ pc' = next
  /\ UNCHANGED failed_at

\* (a main that falls back to the test configuration)
main_default_test ==
  /\ pc = "START"
  /\ Goto("RESOLVE_TARGET")
  /\ UNCHANGED <<env, locals, pollers, remote, history>>

\* main: --env selects the configuration; anything but prod/test prints the usage
main ==
  /\ pc = "START"
  /\ IF env \in {"prod", "test"}
       THEN Goto("RESOLVE_TARGET")
       ELSE Goto("USAGE")
  /\ UNCHANGED <<env, locals, pollers, remote, history>>

\* (a lookup that takes the last service of the listing)
get_service_list_last ==
  /\ pc = "RESOLVE_TARGET"
  /\ reads' = [reads EXCEPT !.list_services = @ + 1]
  /\ \E ok \in BOOLEAN :
       IF ok /\ serviceArns # <<>>
         THEN /\ service' = serviceArns[Len(serviceArns)]
              /\ Goto("CAPTURE_TASKS")
              /\ UNCHANGED <<service_tasks, all_task_count, task_definition,
                             desired_instance_count, drain_i, pollers>>
         ELSE Raise
  /\ UNCHANGED <<env, remote, writes, described>>

\* step 1: list_services(...)['serviceArns'][0]
get_service_list ==
  /\ pc = "RESOLVE_TARGET"
  /\ reads' = [reads EXCEPT !.list_services = @ + 1]
  /\ \E ok \in BOOLEAN :
       IF ok /\ serviceArns # <<>>
         THEN /\ service' = serviceArns[1]
              /\ Goto("CAPTURE_TASKS")
              /\ UNCHANGED <<service_tasks, all_task_count, task_definition,
                             desired_instance_count, drain_i, pollers>>
         ELSE Raise
  /\ UNCHANGED <<env, remote, writes, described>>

\* step 2: list_tasks(...)['taskArns'] and its length
get_task_list ==
  /\ pc = "CAPTURE_TASKS"
  /\ reads' = [reads EXCEPT !.list_tasks = @ + 1]
  /\ \E ok \in BOOLEAN :
       IF ok
         THEN /\ service_tasks' = SortedSeq(tasks)
              /\ all_task_count' = Len(service_tasks')
              /\ Goto("CAPTURE_DEFINITION")
              /\ UNCHANGED <<service, task_definition, desired_instance_count,
                             drain_i, pollers>>
         ELSE Raise
  /\ UNCHANGED <<env, remote, writes, described>>

\* (a run that scales out without the first service wait)
describe_task_definition_no_wait ==
  /\ pc = "CAPTURE_DEFINITION"
  /\ reads' = [reads EXCEPT !.describe_task_definition = @ + 1]
  /\ \E ok \in BOOLEAN :
       IF ok
         THEN /\ task_definition' = latest_revision
              /\ Goto("SCALE_OUT_INSTANCES")
              /\ UNCHANGED <<service, service_tasks, all_task_count,
                             desired_instance_count, drain_i, pollers>>
         ELSE Raise
  /\ UNCHANGED <<env, remote, writes, described>>

\* step 3: describe_task_definition(...)['taskDefinition']['taskDefinitionArn']
describe_task_definition ==
  /\ pc = "CAPTURE_DEFINITION"
  /\ reads' = [reads EXCEPT !.describe_task_definition = @ + 1]
  /\ \E ok \in BOOLEAN :
       IF ok
         THEN /\ task_definition' = latest_revision
              /\ Goto("WAIT_SERVICE_STABLE_0")
              /\ UNCHANGED <<service, service_tasks, all_task_count,
                             desired_instance_count, drain_i, pollers>>
         ELSE Raise
  /\ UNCHANGED <<env, remote, writes, described>>

\* a run that does not wait for the task count after the scale-out
AfterWait_no_task_wait(p) ==
  CASE p = "WAIT_SERVICE_STABLE_0" -> "SCALE_OUT_INSTANCES"
    [] p = "WAIT_INSTANCES_STABLE" -> "INSTANCE_GRACE"
    [] p = "INSTANCE_GRACE"        -> "SCALE_OUT_SERVICE"
    [] p = "DELAY_20"              -> "WAIT_SERVICE_STABLE_1"
    [] p = "WAIT_TASKS_STABLE"     -> "WAIT_SERVICE_STABLE_1"
    [] p = "WAIT_SERVICE_STABLE_1" -> "DRAIN_OLD_TASKS"
    [] p = "DELAY_10"              -> "SCALE_IN_INSTANCES"
    [] p = "WAIT_SERVICE_STABLE_2" -> "DONE"

\* a run that goes from the second service wait straight to the scale-in
AfterWait_no_drain(p) ==
  CASE p = "WAIT_SERVICE_STABLE_0" -> "SCALE_OUT_INSTANCES"
    [] p = "WAIT_INSTANCES_STABLE" -> "INSTANCE_GRACE"
    [] p = "INSTANCE_GRACE"        -> "SCALE_OUT_SERVICE"
    [] p = "DELAY_20"              -> "WAIT_TASKS_STABLE"
    [] p = "WAIT_TASKS_STABLE"     -> "WAIT_SERVICE_STABLE_1"
    [] p = "WAIT_SERVICE_STABLE_1" -> "SCALE_IN_INSTANCES"
    [] p = "DELAY_10"              -> "SCALE_IN_INSTANCES"
    [] p = "WAIT_SERVICE_STABLE_2" -> "DONE"

\* where ECS.run continues when a wait or a sleep returns
AfterWait(p) ==
  CASE p = "WAIT_SERVICE_STABLE_0" -> "SCALE_OUT_INSTANCES"
    [] p = "WAIT_INSTANCES_STABLE" -> "INSTANCE_GRACE"
    [] p = "INSTANCE_GRACE"        -> "SCALE_OUT_SERVICE"
    [] p = "DELAY_20"              -> "WAIT_TASKS_STABLE"
    [] p = "WAIT_TASKS_STABLE"     -> "WAIT_SERVICE_STABLE_1"
    [] p = "WAIT_SERVICE_STABLE_1" -> "DRAIN_OLD_TASKS"
    [] p = "DELAY_10"              -> "SCALE_IN_INSTANCES"
    [] p = "WAIT_SERVICE_STABLE_2" -> "DONE"

ServiceWaits == {"WAIT_SERVICE_STABLE_0", "WAIT_SERVICE_STABLE_1", "WAIT_SERVICE_STABLE_2"}
Waits == ServiceWaits \cup {"WAIT_INSTANCES_STABLE", "WAIT_TASKS_STABLE"}
Sleeps == {"INSTANCE_GRACE", "DELAY_20", "DELAY_10"}

\* the three predicates the pollers test on what they have just read
service_is_stable(msg) == Contains(stable_msg, msg)
\* (a poller that accepts at least the target)
instance_is_stable_at_least(count, desired_capacity) == count >= desired_capacity
instance_is_stable(count, desired_capacity) == count = desired_capacity
\* (a poller that compares with the baseline count instead of its target)
task_is_stable_baseline(desired_count, count) == all_task_count = count
\* (a poller that gives up and returns whatever it read)
task_is_stable_gives_up(desired_count, count) == TRUE
task_is_stable(desired_count, count) == desired_count = count

\* check_service_is_stable, line 48: describe_services(...)['events'][0]['message']
check_service_is_stable_read ==
  /\ pc \in ServiceWaits
  /\ poll = "read"
  /\ described' = TRUE
  /\ \E ok \in BOOLEAN :
       IF ok
         THEN /\ current_msg' = event
              /\ poll' = "test"
              /\ UNCHANGED <<pc, failed_at, locals, instance_count, running_count, grace_slept>>
         ELSE Raise
  /\ UNCHANGED <<env, remote, writes, reads>>

\* check_service_is_stable, lines 51-54: break, or sleep 10 s and poll again
check_service_is_stable_test ==
  /\ pc \in ServiceWaits
  /\ poll = "test"
  /\ poll' = "read"
  /\ current_msg' = <<>>
  /\ IF service_is_stable(current_msg)
       THEN Goto(AfterWait(pc))
       ELSE UNCHANGED <<pc, failed_at>>
  /\ UNCHANGED <<env, locals, instance_count, running_count, grace_slept, remote,
                 history>>

\* check_instance_is_stable, line 59: describe_clusters(...)['registeredContainerInstancesCount']
check_instance_is_stable_read ==
  /\ pc = "WAIT_INSTANCES_STABLE"
  /\ poll = "read"
  /\ described' = TRUE
  /\ \E ok \in BOOLEAN :
       IF ok
         THEN /\ instance_count' = registeredContainerInstancesCount
              /\ poll' = "test"
              /\ UNCHANGED <<pc, failed_at, locals, current_msg, running_count, grace_slept>>
         ELSE Raise
  /\ UNCHANGED <<env, remote, writes, reads>>

\* check_instance_is_stable, lines 62-66: on success the 20 s grace sleep follows
check_instance_is_stable_test ==
  /\ pc = "WAIT_INSTANCES_STABLE"
  /\ poll = "test"
  /\ poll' = "read"
  /\ instance_count' = 0
  /\ IF instance_is_stable(instance_count, desired_instance_count)
       THEN /\ Goto(AfterWait(pc))
            /\ grace_slept' = 0
       ELSE UNCHANGED <<pc, failed_at, grace_slept>>
  /\ UNCHANGED <<env, locals, current_msg, running_count, remote, history>>

\* check_task_is_stable, line 71: describe_services(...)['runningCount']
check_task_is_stable_read ==
  /\ pc = "WAIT_TASKS_STABLE"
  /\ poll = "read"
  /\ described' = TRUE
  /\ \E ok \in BOOLEAN :
       IF ok
         THEN /\ running_count' = runningCount
              /\ poll' = "test"
              /\ UNCHANGED <<pc, failed_at, locals, current_msg, instance_count, grace_slept>>
         ELSE Raise
  /\ UNCHANGED <<env, remote, writes, reads>>

\* check_task_is_stable, lines 74-77
check_task_is_stable_test ==
  /\ pc = "WAIT_TASKS_STABLE"
  /\ poll = "test"
  /\ poll' = "read"
  /\ running_count' = 0
  /\ IF task_is_stable(desired_instance_count, running_count)
       THEN Goto(AfterWait(pc))
       ELSE UNCHANGED <<pc, failed_at>>
  /\ UNCHANGED <<env, locals, current_msg, instance_count, grace_slept, remote,
                 history>>

\* the argument of time.sleep at each of the three fixed sleeps
\* (a grace period as short as the polling interval)
Seconds_polling_interval(p) ==
  CASE p = "INSTANCE_GRACE" -> 5
    [] p = "DELAY_20"       -> 20
    [] p = "DELAY_10"       -> 10

Seconds(p) ==
  CASE p = "INSTANCE_GRACE" -> 20
    [] p = "DELAY_20"       -> 20
    [] p = "DELAY_10"       -> 10

\* time.sleep(20) of line 64 and of line 141, time.sleep(10) of line 153
time_sleep ==
  /\ pc \in Sleeps
  /\ Goto(AfterWait(pc))
  /\ grace_slept' = IF pc = "INSTANCE_GRACE" THEN grace_slept + Seconds(pc)
                                             ELSE grace_slept
  /\ UNCHANGED <<env, locals, poll, current_msg, instance_count, running_count,
                 remote, history>>

\* ---- the three write requests: what the remote side holds once accepted
\* (a request that scales relative to the group's current size)
update_auto_scaling_group_relative(min_size, desired_capacity) ==
  [MinSize |-> min_size, MaxSize |-> asg.MaxSize + desired_capacity,
   DesiredCapacity |-> asg.DesiredCapacity + desired_capacity]

\* (a request whose MaxSize is taken from min_size)
update_auto_scaling_group_max_is_min(min_size, desired_capacity) ==
  [MinSize |-> min_size, MaxSize |-> min_size,
   DesiredCapacity |-> desired_capacity]

\* update_auto_scaling_group: MaxSize is set to desired_capacity as well
update_auto_scaling_group(min_size, desired_capacity) ==
  [MinSize |-> min_size, MaxSize |-> desired_capacity,
   DesiredCapacity |-> desired_capacity]

\* (a request that resolves the task definition again when it is sent)
update_service_latest(service_name, desired_count, definition) ==
  [desiredCount |-> desired_count, taskDefinition |-> latest_revision,
   maximumPercent |-> maximumPercent,
   minimumHealthyPercent |-> minimumHealthyPercent]

\* (a request that leaves the desired count out)
update_service_keeps_count(service_name, desired_count, definition) ==
  [desiredCount |-> svc.desiredCount, taskDefinition |-> definition,
   maximumPercent |-> maximumPercent,
   minimumHealthyPercent |-> minimumHealthyPercent]

update_service(service_name, desired_count, definition) ==
  [desiredCount |-> desired_count, taskDefinition |-> definition,
   maximumPercent |-> maximumPercent,
   minimumHealthyPercent |-> minimumHealthyPercent]

\* stop_task: the stop is requested; the task exits later
stop_task(task_id) == stop_requested \cup ({task_id} \cap tasks)

\* an entry of the log of writes: the method, its arguments, and what was sent
AsgWrite(min_size, desired_capacity, r) ==
  [op |-> "update_auto_scaling_group", args |-> <<min_size, desired_capacity>>,
   request |-> r]
SvcWrite(service_name, desired_count, definition, r) ==
  [op |-> "update_service", args |-> <<service_name, desired_count, definition>>,
   request |-> r]
StopWrite(task_id) == [op |-> "stop_task", args |-> <<task_id>>, task |-> task_id]

\* line 132: int(all_task_count * 2)
\* (a sizing that adds a fixed headroom instead of doubling)
DoubledCount_plus_two(n) == n + 2
DoubledCount(n) == n * 2

\* line 150: the list the drain loop iterates over
\* (a drain that lists the service's tasks again)
DrainList_requeried == SortedSeq(tasks)
DrainList == service_tasks

\* step 5: desired_instance_count = 2 * all_task_count; ASG to (min N, desired 2N)
scale_out_instances ==
  /\ pc = "SCALE_OUT_INSTANCES"
  /\ desired_instance_count' = DoubledCount(all_task_count)
  /\ \E ok \in BOOLEAN :
       IF ok
         THEN LET r == update_auto_scaling_group(all_task_count, desired_instance_count')
              IN /\ asg' = r
                 /\ writes' = Append(writes, AsgWrite(all_task_count,
                                                      desired_instance_count', r))
                 /\ Goto("WAIT_INSTANCES_STABLE")
         ELSE /\ pc' = "ABORTED"
              /\ failed_at' = pc
              /\ UNCHANGED <<asg, writes>>
  /\ UNCHANGED <<env, service, service_tasks, all_task_count, task_definition, drain_i,
                 pollers, serviceArns, latest_revision, instances, tasks,
                 stop_requested, next_task_id, svc, event, reads, described>>

\* step 7: service to desiredCount 2N with the captured task definition
scale_out_service ==
  /\ pc = "SCALE_OUT_SERVICE"
  /\ \E ok \in BOOLEAN :
       IF ok
         THEN LET r == update_service(service, desired_instance_count, task_definition)
              IN /\ svc' = r
                 /\ writes' = Append(writes, SvcWrite(service, desired_instance_count,
                                                      task_definition, r))
                 /\ Goto("DELAY_20")
                 /\ UNCHANGED <<locals, pollers>>
         ELSE /\ Raise
              /\ UNCHANGED <<svc, writes>>
  /\ UNCHANGED <<env, serviceArns, latest_revision, asg, instances, tasks,
                 stop_requested, next_task_id, event, reads, described>>

\* step 10: one iteration of `for task in service_tasks`, or the end of the loop
drain_old_tasks ==
  /\ pc = "DRAIN_OLD_TASKS"
  /\ IF drain_i <= Len(DrainList)
       THEN \E ok \in BOOLEAN :
              IF ok
                THEN /\ stop_requested' = stop_task(DrainList[drain_i])
                     /\ writes' = Append(writes, StopWrite(DrainList[drain_i]))
                     /\ drain_i' = drain_i + 1
                     /\ UNCHANGED <<pc, failed_at>>
                ELSE /\ pc' = "ABORTED"
                     /\ failed_at' = pc
                     /\ UNCHANGED <<stop_requested, writes, drain_i>>
       ELSE /\ Goto("DELAY_10")
            /\ UNCHANGED <<stop_requested, writes, drain_i>>
  /\ UNCHANGED <<env, service, service_tasks, all_task_count, task_definition,
                 desired_instance_count, pollers, serviceArns, latest_revision, asg,
                 instances, tasks, next_task_id, svc, event, reads, described>>

\* step 11: ASG back to (min N, desired N)
scale_in_instances ==
  /\ pc = "SCALE_IN_INSTANCES"
  /\ \E ok \in BOOLEAN :
       IF ok
         THEN LET r == update_auto_scaling_group(all_task_count, all_task_count)
              IN /\ asg' = r
                 /\ writes' = Append(writes, AsgWrite(all_task_count, all_task_count, r))
                 /\ Goto("SCALE_IN_SERVICE")
                 /\ UNCHANGED <<locals, pollers>>
         ELSE /\ Raise
              /\ UNCHANGED <<asg, writes>>
  /\ UNCHANGED <<env, serviceArns, latest_revision, instances, tasks, stop_requested,
                 next_task_id, svc, event, reads, described>>

\* step 12: service back to desiredCount N
scale_in_service ==
  /\ pc = "SCALE_IN_SERVICE"
  /\ \E ok \in BOOLEAN :
       IF ok
         THEN LET r == update_service(service, all_task_count, task_definition)
              IN /\ svc' = r
                 /\ writes' = Append(writes, SvcWrite(service, all_task_count,
                                                      task_definition, r))
                 /\ Goto("WAIT_SERVICE_STABLE_2")
                 /\ UNCHANGED <<locals, pollers>>
         ELSE /\ Raise
              /\ UNCHANGED <<svc, writes>>
  /\ UNCHANGED <<env, serviceArns, latest_revision, asg, instances, tasks,
                 stop_requested, next_task_id, event, reads, described>>

\* ------------------------------------------------------------ remote side
\* the autoscaling group launches an instance, which registers with the cluster
RemoteRegisterInstance ==
  /\ registeredContainerInstancesCount < asg.DesiredCapacity
  /\ instances' = instances + 1
  /\ UNCHANGED <<env, orch, serviceArns, latest_revision, asg, tasks, stop_requested,
                 next_task_id, svc, event, history>>

\* the autoscaling group scales in: it terminates an instance of its choice, an
\* idle one or the one a task runs on, and that task goes with it
RemoteTerminateInstance ==
  /\ registeredContainerInstancesCount > asg.DesiredCapacity
  /\ instances' = instances - 1
  /\ \/ /\ runningCount < instances
        /\ UNCHANGED <<tasks, stop_requested>>
     \/ \E t \in tasks :
          /\ tasks' = tasks \ {t}
          /\ stop_requested' = stop_requested \ {t}
  /\ UNCHANGED <<env, orch, serviceArns, latest_revision, asg, next_task_id, svc,
                 event, history>>

\* the service scheduler starts a task on an instance with room for it
RemoteStartTask ==
  /\ runningCount < svc.desiredCount
  /\ runningCount < instances
  /\ next_task_id <= MaxTaskId
  /\ tasks' = tasks \cup {next_task_id}
  /\ next_task_id' = next_task_id + 1
  /\ event' = StartedEvent
  /\ UNCHANGED <<env, orch, serviceArns, latest_revision, asg, instances,
                 stop_requested, svc, history>>

\* a task whose stop was requested exits
RemoteStopTask ==
  /\ \E t \in tasks \cap stop_requested :
       /\ tasks' = tasks \ {t}
       /\ stop_requested' = stop_requested \ {t}
  /\ UNCHANGED <<env, orch, serviceArns, latest_revision, asg, instances,
                 next_task_id, svc, event, history>>

\* the service scheduler stops a task in excess of the desired count
RemoteStopExcess ==
  /\ runningCount > svc.desiredCount
  /\ \E t \in tasks :
       /\ tasks' = tasks \ {t}
       /\ stop_requested' = stop_requested \ {t}
  /\ event' = StoppedEvent
  /\ UNCHANGED <<env, orch, serviceArns, latest_revision, asg, instances,
                 next_task_id, svc, history>>

\* the service scheduler reports that running count and desired count agree
RemoteSteadyState ==
  /\ runningCount = svc.desiredCount
  /\ event # SteadyEvent
  /\ event' = SteadyEvent
  /\ UNCHANGED <<env, orch, serviceArns, latest_revision, asg, instances, tasks,
                 stop_requested, next_task_id, svc, history>>

\* somebody registers a new revision of the task definition
RemoteRegisterRevision ==
  /\ latest_revision < MaxRev
  /\ latest_revision' = latest_revision + 1
  /\ UNCHANGED <<env, orch, serviceArns, asg, instances, tasks, stop_requested,
                 next_task_id, svc, event, history>>

Remote ==
  \/ RemoteRegisterInstance
  \/ RemoteTerminateInstance
  \/ RemoteStartTask
  \/ RemoteStopTask
  \/ RemoteStopExcess
  \/ RemoteSteadyState
  \/ RemoteRegisterRevision

\* ------------------------------------------- the client methods on their own
\* A caller that issues update_auto_scaling_group and update_service directly,
\* with any arguments, any number of times (up to MaxCalls), in any order.
InitClient ==
  /\ env = "test"
  /\ pc = "CLIENT"
  /\ failed_at = "-"
  /\ service = "svcA"
  /\ service_tasks = <<>>
  /\ all_task_count = 0
  /\ task_definition = 0
  /\ desired_instance_count = 0
  /\ drain_i = 1
  /\ poll = "read"
  /\ current_msg = <<>>
  /\ instance_count = 0
  /\ running_count = 0
  /\ grace_slept = -1
  /\ serviceArns = <<"svcA">>
  /\ latest_revision = 1
  /\ \E d \in 0..MaxN :
       /\ asg = [MinSize |-> d, MaxSize |-> d, DesiredCapacity |-> d]
       /\ instances = d
       /\ tasks = 1..d
       /\ next_task_id = d + 1
       /\ svc = [desiredCount |-> d, taskDefinition |-> 1,
                 maximumPercent |-> maximumPercent,
                 minimumHealthyPercent |-> minimumHealthyPercent]
  /\ event = SteadyEvent
  /\ stop_requested = {}
  /\ writes = <<>>
  /\ reads = NoReads
  /\ described = FALSE

client_update_auto_scaling_group ==
  /\ pc = "CLIENT"
  /\ Len(writes) < MaxCalls
  /\ \E min_size \in 0..MaxN, desired_capacity \in 0..MaxN :
       LET r == update_auto_scaling_group(min_size, desired_capacity)
       IN /\ asg' = r
          /\ writes' = Append(writes, AsgWrite(min_size, desired_capacity, r))
  /\ UNCHANGED <<env, orch, serviceArns, latest_revision, instances, tasks,
                 stop_requested, next_task_id, svc, event, reads, described>>

client_update_service ==
  /\ pc = "CLIENT"
  /\ Len(writes) < MaxCalls
  /\ \E desired_count \in 0..MaxN, definition \in 1..MaxRev :
       LET r == update_service(service, desired_count, definition)
       IN /\ svc' = r
          /\ writes' = Append(writes, SvcWrite(service, desired_count, definition, r))
  /\ UNCHANGED <<env, orch, serviceArns, latest_revision, asg, instances, tasks,
                 stop_requested, next_task_id, event, reads, described>>

NextClient ==
  \/ client_update_auto_scaling_group
  \/ client_update_service

SpecClient == InitClient /\ [][NextClient]_vars

\* ------------------------------------------------------------------ Spec
Next ==
  \/ main
  \/ get_service_list
  \/ get_task_list
  \/ describe_task_definition
  \/ check_service_is_stable_read
  \/ check_service_is_stable_test
  \/ scale_out_instances
  \/ check_instance_is_stable_read
  \/ check_instance_is_stable_test
  \/ scale_out_service
  \/ check_task_is_stable_read
  \/ check_task_is_stable_test
  \/ drain_old_tasks
  \/ scale_in_instances
  \/ scale_in_service
  \/ time_sleep
  \/ Remote

Spec == Init /\ [][Next]_vars

\* the steps of main / ECS.run: the one Python thread, which keeps running
Orchestrator ==
  \/ main
  \/ get_service_list
  \/ get_task_list
  \/ describe_task_definition
  \/ check_service_is_stable_read
  \/ check_service_is_stable_test
  \/ scale_out_instances
  \/ check_instance_is_stable_read
  \/ check_instance_is_stable_test
  \/ scale_out_service
  \/ check_task_is_stable_read
  \/ check_task_is_stable_test
  \/ drain_old_tasks
  \/ scale_in_instances
  \/ scale_in_service
  \/ time_sleep

\* the process is scheduled fairly: a step it can take is eventually taken
SpecFair == Init /\ [][Next]_vars /\ WF_vars(Orchestrator)

\* ------------------------------------------------------------ properties
IsAsg(w) == w.op = "update_auto_scaling_group"
IsSvc(w) == w.op = "update_service"
IsStop(w) == w.op = "stop_task"
Range(q) == {q[i] : i \in 1..Len(q)}
StoppedSoFar(n) == {writes[j].task : j \in {k \in 1..n : IsStop(writes[k])}}

\* positions of ECS.run at which the baseline has been captured
Captured ==
  {"CAPTURE_DEFINITION"} \cup Waits \cup Sleeps \cup
  {"SCALE_OUT_INSTANCES", "SCALE_OUT_SERVICE", "DRAIN_OLD_TASKS",
   "SCALE_IN_INSTANCES", "SCALE_IN_SERVICE", "DONE"}
AfterDrain == {"DELAY_10", "SCALE_IN_INSTANCES", "SCALE_IN_SERVICE",
               "WAIT_SERVICE_STABLE_2", "DONE"}

\* C1: with N >= 1 baseline tasks, the service update to 2N is preceded by the
\* autoscaling-group update to 2N, and the autoscaling-group update to N and the
\* service update to N are preceded by a stop request for every baseline task.
C1_Order ==
  all_task_count >= 1 =>
    \A i \in 1..Len(writes) :
      /\ (IsSvc(writes[i]) /\ writes[i].request.desiredCount = 2 * all_task_count)
           => \E j \in 1..(i - 1) :
                /\ IsAsg(writes[j])
                /\ writes[j].request.DesiredCapacity = 2 * all_task_count
      /\ (\/ IsAsg(writes[i]) /\ writes[i].request.DesiredCapacity = all_task_count
          \/ IsSvc(writes[i]) /\ writes[i].request.desiredCount = all_task_count)
           => Range(service_tasks) \subseteq StoppedSoFar(i - 1)

C1_Witness ==
  /\ pc = "DONE"
  /\ all_task_count = 2
  /\ Len(writes) = 6

\* C2: the tasks stopped by the drain are exactly the tasks listed at baseline
\* capture: the captured list never changes afterwards, only tasks of that list
\* are ever stopped, and once the drain is over each of them has been stopped.
C2_StopsBaseline ==
  /\ [](/\ StoppedSoFar(Len(writes)) \subseteq Range(service_tasks)
        /\ pc \in AfterDrain => StoppedSoFar(Len(writes)) = Range(service_tasks))
  /\ [][/\ pc = "CAPTURE_TASKS" /\ pc' = "CAPTURE_DEFINITION"
             => Range(service_tasks') = tasks
        /\ pc # "CAPTURE_TASKS" => service_tasks' = service_tasks]_vars

\* the drain is over, and the service then ran a task that was not in the baseline
C2_Witness ==
  /\ pc = "DELAY_10"
  /\ Len(service_tasks) = 2
  /\ StoppedSoFar(Len(writes)) = Range(service_tasks)
  /\ tasks \ Range(service_tasks) # {}

\* what the poller at position pc tests on the value it holds
Satisfied ==
  CASE pc \in ServiceWaits -> Contains(stable_msg, current_msg)
    [] pc = "WAIT_INSTANCES_STABLE" -> instance_count = desired_instance_count
    [] pc = "WAIT_TASKS_STABLE" -> running_count = desired_instance_count
    [] OTHER -> FALSE

\* C3: every attempt of a poller reads the remote state afresh (the most recent
\* event, the registered instance count, the running count), and the poller
\* returns at an attempt exactly when what that attempt read satisfies its
\* predicate; a wait is left in no other way than that, or by an exception.
C3_Pollers ==
  /\ [](poll = "test" => pc \in Waits)
  /\ [][/\ (poll = "read" /\ poll' = "test") =>
             /\ pc \in ServiceWaits => current_msg' = event
             /\ pc = "WAIT_INSTANCES_STABLE" => instance_count' = instances
             /\ pc = "WAIT_TASKS_STABLE" => running_count' = Cardinality(tasks)
        /\ (poll = "test" /\ poll' = "read") =>
             /\ Satisfied => pc' \notin {pc, "ABORTED"}
             /\ ~Satisfied => pc' = pc
        /\ (pc \in Waits /\ pc' \notin {pc, "ABORTED"}) =>
             poll = "test" /\ Satisfied]_vars

\* the instance wait holds a read that equals its target, after instances were added
C3_Witness ==
  /\ pc = "WAIT_INSTANCES_STABLE"
  /\ poll = "test"
  /\ instance_count = desired_instance_count
  /\ instance_count >= 2
  /\ asg.MinSize < instance_count

\* the fields of a write request the deployment scenario speaks of
Brief(w) ==
  CASE IsAsg(w) -> <<"asg", w.request.MinSize, w.request.DesiredCapacity>>
    [] IsSvc(w) -> <<"svc", w.request.desiredCount>>
    [] IsStop(w) -> <<"stop", w.task>>

Scenario(n, old) ==
  <<  <<"asg", n, 2 * n>>, <<"svc", 2 * n>>  >>
  \o [i \in 1..Len(old) |-> <<"stop", old[i]>>]
  \o <<  <<"asg", n, n>>, <<"svc", n>>  >>

\* C4: a run that reaches DONE has issued exactly the writes ASG(min N, desired
\* 2N), service(2N), one stop per baseline task, ASG(min N, desired N),
\* service(N), in this order; the instance wait and the task wait both target
\* 2N and sit after the first and after the second write.
C4_Scenario ==
  /\ pc = "DONE" =>
       /\ [i \in 1..Len(writes) |-> Brief(writes[i])]
            = Scenario(all_task_count, service_tasks)
       /\ Len(service_tasks) = all_task_count
  /\ pc \in {"WAIT_INSTANCES_STABLE", "WAIT_TASKS_STABLE"} =>
       /\ desired_instance_count = 2 * all_task_count
       /\ Len(writes) = (IF pc = "WAIT_INSTANCES_STABLE" THEN 1 ELSE 2)

C4_Witness ==
  /\ pc = "DONE"
  /\ all_task_count = 1
  /\ Len(writes) = 5

\* the request last accepted of each kind is what the remote side holds
LastRequested ==
  /\ \A i \in 1..Len(writes) :
       (IsAsg(writes[i]) /\ \A j \in (i + 1)..Len(writes) : ~IsAsg(writes[j]))
         => asg = writes[i].request
  /\ \A i \in 1..Len(writes) :
       (IsSvc(writes[i]) /\ \A j \in (i + 1)..Len(writes) : ~IsSvc(writes[j]))
         => svc = writes[i].request

\* C6: a remote call that fails ends the run at that step: the step issues no
\* write, and from then on no call of any kind is issued (no retry, no
\* rollback), so the autoscaling group and the service keep the values last
\* requested successfully.
C6_Abort ==
  /\ [](failed_at # "-" => pc = "ABORTED")
  /\ [](pc = "ABORTED" => LastRequested)
  /\ [][/\ (pc # "ABORTED" /\ pc' = "ABORTED") =>
             /\ failed_at' = pc
             /\ <<writes, asg, svc, stop_requested>>' = <<writes, asg, svc, stop_requested>>
        /\ pc = "ABORTED" =>
             /\ pc' = "ABORTED"
             /\ <<writes, reads, described, asg, svc>>' = <<writes, reads, described, asg, svc>>
             /\ stop_requested' \subseteq stop_requested]_vars

\* describe_services raised inside the task wait, after the scale-out
C6_Witness ==
  /\ pc = "ABORTED"
  /\ failed_at = "WAIT_TASKS_STABLE"
  /\ Len(writes) = 2
  /\ asg.DesiredCapacity = 2 * all_task_count
  /\ all_task_count >= 1

\* C7: with --env absent or not prod/test, main prints the usage and returns: no
\* remote call, read or write, is ever issued.
C7_Usage ==
  env \notin {"prod", "test"} =>
    /\ pc \in {"START", "USAGE"}
    /\ writes = <<>>
    /\ reads = NoReads
    /\ ~described

C7_Witness ==
  /\ env = "staging"
  /\ pc = "USAGE"

Expansion == {"WAIT_INSTANCES_STABLE", "INSTANCE_GRACE", "SCALE_OUT_SERVICE", "DELAY_20",
              "WAIT_TASKS_STABLE", "WAIT_SERVICE_STABLE_1", "DRAIN_OLD_TASKS"}

\* C8: from the first autoscaling-group update to the drain the requested group
\* capacity is 2N and, once requested, the service's desired count is 2N; after
\* the drain the requests carry N for both; no request carries any other target.
C8_Targets ==
  /\ pc \in Expansion =>
       /\ desired_instance_count = 2 * all_task_count
       /\ asg.DesiredCapacity = 2 * all_task_count
       /\ pc \notin {"WAIT_INSTANCES_STABLE", "INSTANCE_GRACE", "SCALE_OUT_SERVICE"}
            => svc.desiredCount = 2 * all_task_count
  /\ pc \in {"SCALE_IN_SERVICE", "WAIT_SERVICE_STABLE_2", "DONE"} =>
       asg.DesiredCapacity = all_task_count
  /\ pc \in {"WAIT_SERVICE_STABLE_2", "DONE"} => svc.desiredCount = all_task_count
  /\ \A i \in 1..Len(writes) :
       /\ IsAsg(writes[i]) =>
            writes[i].request.DesiredCapacity \in {all_task_count, 2 * all_task_count}
       /\ IsSvc(writes[i]) =>
            writes[i].request.desiredCount \in {all_task_count, 2 * all_task_count}

C8_Witness ==
  /\ pc = "WAIT_SERVICE_STABLE_2"
  /\ all_task_count = 1
  /\ asg.DesiredCapacity = 1
  /\ svc.desiredCount = 1
  /\ \E i \in 1..Len(writes) : IsSvc(writes[i]) /\ writes[i].request.desiredCount = 2

\* C5: zero downtime: once the baseline of N >= 1 tasks is captured, the service
\* never runs fewer than N tasks, up to and including DONE.
C5_ZeroDowntime ==
  (pc \in Captured /\ all_task_count >= 1) => Cardinality(tasks) >= all_task_count

\* what each wait polls for, in the remote state
RemoteHolds(w) ==
  CASE w \in ServiceWaits -> Contains(stable_msg, event)
    [] w = "WAIT_INSTANCES_STABLE" -> instances = desired_instance_count
    [] w = "WAIT_TASKS_STABLE" -> Cardinality(tasks) = desired_instance_count

\* C9: a poller whose condition never becomes true in the remote state after
\* it starts an attempt never returns: the run stays in that wait (or ends by
\* an exception of the read itself), never reaches a later step, and the list of
\* writes issued stays as it was.
C9_Hang ==
  /\ \A w \in Waits :
       []((pc = w /\ poll = "read")
            => ([](~RemoteHolds(w))
                  => [](pc \in {w, "ABORTED"} /\ (pc = "ABORTED" => failed_at = w))))
  /\ [][(pc \in Waits /\ pc' \in {pc, "ABORTED"}) => writes' = writes]_vars

\* the task wait has read a running count short of its target and polls again
C9_Witness ==
  /\ pc = "WAIT_TASKS_STABLE"
  /\ poll = "test"
  /\ running_count < desired_instance_count
  /\ ~RemoteHolds(pc)

\* C10: a call of update_auto_scaling_group or update_service that repeats the
\* call issued just before it, with the same arguments, leaves the group's min/max/desired and the
\* service's desired count, task definition and deployment configuration as the
\* first of the two left them.
C10_Idempotent ==
  [][(/\ Len(writes) >= 1
      /\ Len(writes') = Len(writes) + 1
      /\ writes'[Len(writes')].op = writes[Len(writes)].op
      /\ writes'[Len(writes')].args = writes[Len(writes)].args)
       => (asg' = asg /\ svc' = svc)]_vars

\* the same non-trivial group update has been issued twice in a row
C10_Witness ==
  /\ pc = "CLIENT"
  /\ Len(writes) = 2
  /\ writes[1] = writes[2]
  /\ IsAsg(writes[2])
  /\ writes[2].request.DesiredCapacity >= 1
  /\ asg = writes[2].request


\* the run has ended in RESOLVE_TARGET, and list_services is the only call issued
AbortedInResolve ==
  /\ pc = "ABORTED"
  /\ failed_at = "RESOLVE_TARGET"
  /\ reads = [NoReads EXCEPT !.list_services = 1]
  /\ ~described
  /\ writes = <<>>

\* C11 as stated: get_service_list fails on a cluster without services, the run
\* then ends in RESOLVE_TARGET with no other remote call issued, and with several
\* services it yields an empty/undefined result.
C11_AsStated ==
  /\ (reads.list_services >= 1 /\ serviceArns = <<>>) => AbortedInResolve
  /\ failed_at = "RESOLVE_TARGET" => AbortedInResolve
  /\ (reads.list_services >= 1 /\ Len(serviceArns) > 1 /\ failed_at # "RESOLVE_TARGET")
       => service = "-"

\* C11: get_service_list fails on a cluster without services, the run then ends
\* in RESOLVE_TARGET with no other remote call issued, and with one or several
\* services it yields the first service of the listing.
C11_FirstService ==
  /\ (reads.list_services >= 1 /\ serviceArns = <<>>) => AbortedInResolve
  /\ failed_at = "RESOLVE_TARGET" => AbortedInResolve
  /\ (reads.list_services >= 1 /\ failed_at # "RESOLVE_TARGET")
       => (serviceArns # <<>> /\ service = serviceArns[1])

\* the cluster lists two services and the run goes on with the first
C11_Witness ==
  /\ Len(serviceArns) = 2
  /\ service = serviceArns[1]
  /\ pc = "CAPTURE_TASKS"


Enters(p) == pc # p /\ pc' = p

\* C12: a stop request is issued only in the drain step; the drain step is
\* entered only when the second service wait tests a message with the steady
\* marker; that wait is entered only when the task wait tests a running count
\* equal to 2N; and the task wait is entered only after the service update to 2N.
C12_DrainAfterDoubled ==
  /\ [](\A i \in 1..Len(writes) :
          IsStop(writes[i]) =>
            \E j \in 1..(i - 1) :
              /\ IsSvc(writes[j])
              /\ writes[j].request.desiredCount = 2 * all_task_count)
  /\ [][/\ (Len(writes') > Len(writes) /\ IsStop(writes'[Len(writes')]))
             => pc = "DRAIN_OLD_TASKS"
        /\ Enters("DRAIN_OLD_TASKS") =>
             /\ pc = "WAIT_SERVICE_STABLE_1"
             /\ poll = "test"
             /\ Contains(stable_msg, current_msg)
        /\ Enters("WAIT_SERVICE_STABLE_1") =>
             /\ pc = "WAIT_TASKS_STABLE"
             /\ poll = "test"
             /\ running_count = 2 * all_task_count
        /\ Enters("WAIT_TASKS_STABLE") =>
             /\ pc = "DELAY_20"
             /\ svc.desiredCount = 2 * all_task_count
             /\ IsSvc(writes[Len(writes)])]_vars

\* the first of two old tasks has been asked to stop, with four tasks running
C12_Witness ==
  /\ pc = "DRAIN_OLD_TASKS"
  /\ all_task_count = 2
  /\ drain_i = 2
  /\ Cardinality(tasks) = 4


BeforeFirstWrite == {"START", "USAGE", "RESOLVE_TARGET", "CAPTURE_TASKS",
                     "CAPTURE_DEFINITION", "WAIT_SERVICE_STABLE_0"}

\* C13: each of the three baseline reads (service list, task list, task
\* definition) is issued at most once in a run; a write is issued only after all
\* three have been issued once and the first service wait has returned, which it
\* does only on a message with the steady marker.
C13_ReadsBeforeWrites ==
  /\ [](/\ \A k \in DOMAIN reads : reads[k] <= 1
        /\ writes # <<>> =>
             /\ \A k \in DOMAIN reads : reads[k] = 1
             /\ described
             /\ pc \notin BeforeFirstWrite
             /\ failed_at \notin BeforeFirstWrite)
  /\ [][/\ (writes = <<>> /\ writes' # <<>>) => pc = "SCALE_OUT_INSTANCES"
        /\ Enters("SCALE_OUT_INSTANCES") =>
             /\ pc = "WAIT_SERVICE_STABLE_0"
             /\ poll = "test"
             /\ Contains(stable_msg, current_msg)]_vars

\* the first write is out, after one read of each kind
C13_Witness ==
  /\ pc = "WAIT_INSTANCES_STABLE"
  /\ Len(writes) = 1
  /\ \A k \in DOMAIN reads : reads[k] = 1
  /\ all_task_count >= 1


\* C14: every service update of a run carries the task definition resolved at
\* step 3, which never changes afterwards whatever is registered remotely, and
\* the deployment configuration maximumPercent 200, minimumHealthyPercent 100.
C14_SameDefinition ==
  /\ [](\A i \in 1..Len(writes) :
          IsSvc(writes[i]) =>
            /\ writes[i].request.taskDefinition = task_definition
            /\ writes[i].request.maximumPercent = 200
            /\ writes[i].request.minimumHealthyPercent = 100)
  /\ [][/\ (pc = "CAPTURE_DEFINITION" /\ pc' = "WAIT_SERVICE_STABLE_0")
             => task_definition' = latest_revision
        /\ pc # "CAPTURE_DEFINITION" => task_definition' = task_definition]_vars

\* both service updates are out with revision 1 although revision 2 exists
C14_Witness ==
  /\ pc = "WAIT_SERVICE_STABLE_2"
  /\ latest_revision = 2
  /\ task_definition = 1
  /\ Cardinality({i \in 1..Len(writes) : IsSvc(writes[i])}) = 2
  /\ \A i \in 1..Len(writes) : IsSvc(writes[i]) => writes[i].request.taskDefinition = 1


\* C15: the instance wait returns only when it has tested a count equal to 2N
\* and then slept 20 seconds, so every service update comes at least 20 seconds
\* after that test; once the test has succeeded the instance count is not read
\* again.
C15_Grace ==
  /\ [](grace_slept >= 0 => pc # "WAIT_INSTANCES_STABLE")
  /\ [][/\ grace_slept' # grace_slept => grace_slept' > grace_slept
        /\ Enters("INSTANCE_GRACE") =>
             /\ pc = "WAIT_INSTANCES_STABLE"
             /\ poll = "test"
             /\ instance_count = 2 * all_task_count
             /\ grace_slept' = 0
        /\ (Len(writes') > Len(writes) /\ IsSvc(writes'[Len(writes')]))
             => grace_slept >= 20
        /\ instance_count' # instance_count => pc = "WAIT_INSTANCES_STABLE"]_vars

\* the service update to 2N is out, 20 seconds after the successful test
C15_Witness ==
  /\ pc = "DELAY_20"
  /\ grace_slept = 20
  /\ all_task_count >= 1
  /\ IsSvc(writes[Len(writes)])


\* C16: under fair scheduling, a run started with prod or test in which no
\* remote call fails, and in which the condition of each wait eventually holds
\* for as long as the run is in that wait, reaches DONE; and between two polls
\* (no read in hand) the run never leaves a wait, whatever the remote state is at
\* that moment.
C16_Terminates ==
  /\ ( /\ [](pc # "ABORTED")
       /\ [](env \in {"prod", "test"})
       /\ \A w \in Waits : <>[](pc = w => RemoteHolds(w)) )
     => <>(pc = "DONE")
  /\ [][(pc \in Waits /\ poll = "read" /\ pc' # pc) => pc' = "ABORTED"]_vars

\* the run is over without a failure and the remote side is as it was asked to be
C16_Witness ==
  /\ pc = "DONE"
  /\ failed_at = "-"
  /\ all_task_count >= 1
  /\ instances = all_task_count
  /\ Cardinality(tasks) = all_task_count


\* C17: a service wait that follows a service update returns only on a steady
\* message about that update: when such a wait reads the steady marker, the
\* service runs the desired count last requested and no stop is pending, and when
\* the run reaches DONE the service runs N tasks.
C17_SteadyIsFresh ==
  [][/\ (/\ pc \in {"WAIT_SERVICE_STABLE_1", "WAIT_SERVICE_STABLE_2"}
         /\ poll = "read"
         /\ poll' = "test"
         /\ Contains(stable_msg, current_msg'))
          => (Cardinality(tasks) = svc.desiredCount /\ stop_requested = {})
     /\ Enters("DONE") => Cardinality(tasks) = all_task_count]_vars


\* C18: every autoscaling-group update of a run has MaxSize = DesiredCapacity
\* and MinSize = N, hence MinSize <= DesiredCapacity <= MaxSize; and at DONE the
\* group's requested capacity and the service's requested count are both N.
C18_GroupBounds ==
  /\ \A i \in 1..Len(writes) :
       IsAsg(writes[i]) =>
         /\ writes[i].request.MaxSize = writes[i].request.DesiredCapacity
         /\ writes[i].request.MinSize = all_task_count
         /\ writes[i].request.MinSize <= writes[i].request.DesiredCapacity
         /\ writes[i].request.DesiredCapacity <= writes[i].request.MaxSize
  /\ pc = "DONE" =>
       /\ asg.DesiredCapacity = all_task_count
       /\ svc.desiredCount = all_task_count

\* the run is over: the group was at (2, 4, 4) and is back at (2, 2, 2)
C18_Witness ==
  /\ pc = "DONE"
  /\ asg = [MinSize |-> 2, MaxSize |-> 2, DesiredCapacity |-> 2]
  /\ svc.desiredCount = 2
  /\ \E i \in 1..Len(writes) :
       /\ IsAsg(writes[i])
       /\ writes[i].request = [MinSize |-> 2, MaxSize |-> 4, DesiredCapacity |-> 4]

====
